---- MODULE Spec2Model ----
(***************************************************************************)
(* Model of the dual-pane collapsible outline navigator                    *)
(* (folder/src/main.rs): App, its methods, and the run_app control loop.   *)
(* Program indices are 0-based as in the source; TLA+ sequences are        *)
(* 1-based, so element i of a Vec v is v[i + 1].                           *)
(* The debounced control loop of the tree programs (src/lib.rs,            *)
(* treetest/src/lib.rs) is modelled next to it on variables of its own;    *)
(* each program's variables rest at "off" values while the other runs.     *)
(***************************************************************************)
EXTENDS Integers, Sequences, FiniteSets, TLC

VARIABLES text, paragraphs, collapsed, selected, nav_selected, active_pane,
          nav_scroll_offset, pc, ev, area, scroll,
          dpc, dev, debounce, tree, shown

\* the variables of the outline navigator
fvars == <<text, paragraphs, collapsed, selected, nav_selected, active_pane,
           nav_scroll_offset, pc, ev, area, scroll>>

\* the variables of the debounced loop: its position, the event read, the
\* time elapsed since `debounce` was set (or None), app.state, and the
\* app.state shown by the last draw
dvars == <<dpc, dev, debounce, tree, shown>>

vars == <<fvars, dvars>>

\* Option<Instant>: None, and Some(start) kept as the milliseconds elapsed
\* since start
None == <<>>
Some(ms) == <<ms>>

\* the debounced loop is not running
DebOff ==
    dpc = "off" /\ dev = "none" /\ debounce = None /\ tree = 0 /\ shown = 0

\* ---------------------------------------------------------------- bounds
\* longest enumerated input text, in characters
MaxTextLen == 4
\* largest terminal height (rows, borders included) a render can observe
MaxArea == 5
\* longest enumerated input text of the segmenter's own specification
MaxSegLen == 6
\* number of distinct values of the tree widget's state (app.state)
MaxTree == 3

\* characters the enumerated input texts are made of
Chars == {"a", " ", "\n"}

\* `height` placeholder used by App::next for the navigation scroll offset
PlaceholderHeight == 10

\* u16 range of the scroll argument handed to the Paragraph widget
U16 == 65536

\* const DEBOUNCE, in milliseconds
DEBOUNCE == 20

\* ------------------------------------------------------ pure helpers
Min(a, b) == IF a < b THEN a ELSE b

\* char::is_whitespace, restricted to the characters a line can hold
IsWhitespace(c) == c \in {" ", "\t", "\r"}

\* str::trim().is_empty()
TrimIsEmpty(line) == \A i \in 1..Len(line) : IsWhitespace(line[i])

\* index of the first "\n" in s, or 0 when there is none
FirstNl(s) ==
    IF \E i \in 1..Len(s) : s[i] = "\n"
    THEN CHOOSE i \in 1..Len(s) : s[i] = "\n" /\ \A j \in 1..(i - 1) : s[j] # "\n"
    ELSE 0

\* a line with one trailing "\r" removed, as str::lines does
StripCr(line) ==
    IF Len(line) > 0 /\ line[Len(line)] = "\r"
    THEN SubSeq(line, 1, Len(line) - 1)
    ELSE line

\* str::lines: split at every "\n"; a final "\n" starts no further line
RECURSIVE lines(_)
lines(str) ==
    IF str = <<>> THEN <<>>
    ELSE LET n == FirstNl(str) IN
         IF n = 0 THEN <<StripCr(str)>>
         ELSE <<StripCr(SubSeq(str, 1, n - 1))>>
              \o lines(SubSeq(str, n + 1, Len(str)))

\* the paragraph loop without the push after the last line
RECURSIVE segment_nofinal(_, _, _)
segment_nofinal(ls, current, acc) ==
    IF ls = <<>>
    THEN acc
    ELSE IF TrimIsEmpty(Head(ls))
         THEN IF current # <<>>
              THEN segment_nofinal(Tail(ls), <<>>, Append(acc, current))
              ELSE segment_nofinal(Tail(ls), current, acc)
         ELSE segment_nofinal(Tail(ls), Append(current, Head(ls)), acc)

\* the paragraph loop without current.clear() after a push
RECURSIVE segment_noclear(_, _, _)
segment_noclear(ls, current, acc) ==
    IF ls = <<>>
    THEN IF current # <<>> THEN Append(acc, current) ELSE acc
    ELSE IF TrimIsEmpty(Head(ls))
         THEN IF current # <<>>
              THEN segment_noclear(Tail(ls), current, Append(acc, current))
              ELSE segment_noclear(Tail(ls), current, acc)
         ELSE segment_noclear(Tail(ls), Append(current, Head(ls)), acc)

\* the paragraph loop of App::new: `ls` are the lines still to read,
\* `current` the paragraph being collected, `acc` the paragraphs pushed
RECURSIVE segment(_, _, _)
segment(ls, current, acc) ==
    IF ls = <<>>
    THEN IF current # <<>> THEN Append(acc, current) ELSE acc
    ELSE IF TrimIsEmpty(Head(ls))
         THEN IF current # <<>>
              THEN segment(Tail(ls), <<>>, Append(acc, current))
              ELSE segment(Tail(ls), current, acc)
         ELSE segment(Tail(ls), Append(current, Head(ls)), acc)

\* the text literal of main: three paragraphs of 3, 2 and 2 lines, each
\* line abstracted to one distinct letter
MainText == <<"a", "\n", "b", "\n", "c", "\n", "\n",
              "d", "\n", "e", "\n", "\n",
              "f", "\n", "g">>

RECURSIVE SeqsUpTo(_, _)
SeqsUpTo(S, n) ==
    IF n = 0 THEN {<<>>}
    ELSE LET shorter == SeqsUpTo(S, n - 1) IN
         shorter \cup {Append(s, c) : s \in {t \in shorter : Len(t) = n - 1}, c \in S}

\* the texts App::new is constructed from
Texts == SeqsUpTo(Chars, MaxTextLen) \cup {MainText}

\* the example text "a\nb\n\nc\n\nd\ne\n"
ExampleText == <<"a", "\n", "b", "\n", "\n", "c", "\n", "\n", "d", "\n", "e", "\n">>

\* the texts the segmenter is run on by itself
SegTexts == SeqsUpTo(Chars, MaxSegLen) \cup {MainText, ExampleText}

\* ------------------------------------------------------ App methods
\* toggle reading nav_selected in either pane
toggle_navonly(flags, pane, nav, sel) ==
    IF nav < Len(flags)
    THEN [flags EXCEPT ![nav + 1] = ~flags[nav + 1]]
    ELSE flags

\* toggle that sets the flag instead of flipping it
toggle_set(flags, pane, nav, sel) ==
    LET idx == IF pane = "Left" THEN nav ELSE sel IN
    IF idx < Len(flags)
    THEN [flags EXCEPT ![idx + 1] = TRUE]
    ELSE flags

\* toggle that pushes a flag when the index is out of range
toggle_grow(flags, pane, nav, sel) ==
    LET idx == IF pane = "Left" THEN nav ELSE sel IN
    IF idx < Len(flags)
    THEN [flags EXCEPT ![idx + 1] = ~flags[idx + 1]]
    ELSE Append(flags, TRUE)

\* App::toggle: the collapse flags after a toggle
toggle(flags, pane, nav, sel) ==
    LET idx == IF pane = "Left" THEN nav ELSE sel IN
    IF idx < Len(flags)
    THEN [flags EXCEPT ![idx + 1] = ~flags[idx + 1]]
    ELSE flags

\* next with `<=` for `<` in the Left arm's bound test
next_left_offbyone(paras, nav, off) ==
    IF nav + 1 <= Len(paras)
    THEN <<nav + 1,
           IF nav + 1 >= off + PlaceholderHeight
           THEN (nav + 1) - PlaceholderHeight + 1
           ELSE off>>
    ELSE <<nav, off>>

\* App::next, Pane::Left arm: <<nav_selected, nav_scroll_offset>>
next_left(paras, nav, off) ==
    IF nav + 1 < Len(paras)
    THEN <<nav + 1,
           IF nav + 1 >= off + PlaceholderHeight
           THEN (nav + 1) - PlaceholderHeight + 1
           ELSE off>>
    ELSE <<nav, off>>

\* next without the Right arm's bound test
next_right_unclamped(paras, sel) == sel + 1

\* App::next, Pane::Right arm: selected
next_right(paras, sel) ==
    IF sel + 1 < Len(paras) THEN sel + 1 ELSE sel

\* App::prev, Pane::Left arm: <<nav_selected, nav_scroll_offset>>
prev_left(nav, off) ==
    IF nav > 0
    THEN <<nav - 1, IF nav - 1 < off THEN nav - 1 ELSE off>>
    ELSE <<nav, off>>

\* App::prev, Pane::Right arm: selected
prev_right(sel) ==
    IF sel > 0 THEN sel - 1 ELSE sel

\* select_nav that leaves selected as it was
select_nav_stale(nav, sel) == sel

\* App::select_nav: selected
select_nav(nav, sel) == nav

\* visible_lines emitting a collapsed paragraph's last line
RECURSIVE visible_from_last(_, _, _)
visible_from_last(paras, flags, i) ==
    IF i >= Len(paras) THEN <<>>
    ELSE (IF flags[i + 1]
          THEN << <<i, paras[i + 1][Len(paras[i + 1])]>> >>
          ELSE [k \in 1..Len(paras[i + 1]) |-> <<i, paras[i + 1][k]>>])
         \o visible_from_last(paras, flags, i + 1)

\* App::visible_lines: the <<paragraph index, line>> records in order
RECURSIVE visible_from(_, _, _)
visible_from(paras, flags, i) ==
    IF i >= Len(paras) THEN <<>>
    ELSE (IF flags[i + 1]
          THEN << <<i, paras[i + 1][1]>> >>
          ELSE [k \in 1..Len(paras[i + 1]) |-> <<i, paras[i + 1][k]>>])
         \o visible_from(paras, flags, i + 1)

visible_lines(paras, flags) == visible_from(paras, flags, 0)

\* ------------------------------------------------------ render helpers
\* u16::saturating_sub
saturating_sub(a, b) == IF a >= b THEN a - b ELSE 0

\* navigation scroll recomputed from nav alone, bottom-aligned
nav_scroll_bottom(nav, off, nav_height) ==
    IF nav >= nav_height THEN nav - nav_height + 1 ELSE 0

\* navigation scroll of the draw closure: nav_scroll_offset after a render
nav_scroll(nav, off, nav_height) ==
    IF nav >= off + nav_height THEN nav - nav_height + 1
    ELSE IF nav < off THEN nav
    ELSE off

\* index of the first visible line tagged with `sel`, unwrap_or(0)
selected_line(vis, sel) ==
    IF \E i \in 1..Len(vis) : vis[i][1] = sel
    THEN (CHOOSE i \in 1..Len(vis) :
              vis[i][1] = sel /\ \A j \in 1..(i - 1) : vis[j][1] # sel) - 1
    ELSE 0

\* content scroll subtracting the whole height
content_scroll_full(vis, sel, height) ==
    LET line == selected_line(vis, sel) IN
    (IF line >= height THEN line - height ELSE 0) % U16

\* content scroll putting the selected line on the first row
content_scroll_top(vis, sel, height) ==
    LET line == selected_line(vis, sel) IN
    (IF line >= height THEN line ELSE 0) % U16

\* content scroll of the draw closure, as handed to Paragraph::scroll
content_scroll(vis, sel, height) ==
    LET line == selected_line(vis, sel) IN
    (IF line >= height THEN line - (height \div 2) ELSE 0) % U16

\* ------------------------------------------------------ input events
\* key codes with a match arm of their own
DownKeys  == {"Down", "j"}
UpKeys    == {"Up", "k"}
LeftKeys  == {"Left", "h"}
\* the Right arm also matching Esc
RightKeys_esc == {"Right", "l", "Esc"}
RightKeys == {"Right", "l"}
\* key codes that fall to the `_ => {}` arm
OtherKeys == {"x", "Esc"}
KeyCodes  == {"q", " ", "Enter", "Home", "End"}
             \cup DownKeys \cup UpKeys \cup LeftKeys \cup RightKeys \cup OtherKeys
\* events that are not Event::Key
NonKeyEvents == {"Resize", "Mouse", "FocusGained"}
Events == KeyCodes \cup NonKeyEvents

\* ------------------------------------------------------ state machine
\* App::new(text), followed by entry into run_app's loop
Init ==
    /\ \E t \in Texts : paragraphs = segment(lines(t), <<>>, <<>>)
    /\ text = <<>>
    /\ collapsed = [i \in 1..Len(paragraphs) |-> FALSE]
    /\ selected = 0
    /\ nav_selected = 0
    /\ active_pane = "Left"
    /\ nav_scroll_offset = 0
    /\ pc = "draw"
    /\ ev = "none"
    /\ area = 0
    /\ scroll = 0
    /\ DebOff

\* terminal.draw(|f| ...): one render at the terminal's current height
Draw ==
    /\ pc = "draw"
    /\ \E h \in 0..MaxArea :
         /\ area' = h
         /\ nav_scroll_offset' =
                nav_scroll(nav_selected, nav_scroll_offset, saturating_sub(h, 2))
         /\ scroll' = content_scroll(visible_lines(paragraphs, collapsed),
                                     selected, saturating_sub(h, 2))
    /\ pc' = "poll"
    /\ UNCHANGED <<dvars, text, paragraphs, collapsed, selected, nav_selected, active_pane, ev>>

\* event::poll returned false: no event within the timeout
PollTimeout ==
    /\ pc = "poll"
    /\ pc' = "draw"
    /\ UNCHANGED <<dvars, text, paragraphs, collapsed, selected, nav_selected, active_pane,
                   nav_scroll_offset, ev, area, scroll>>

\* event::poll returned true and event::read delivered an event
ReadEvent ==
    /\ pc = "poll"
    /\ \E e \in Events : ev' = e
    /\ pc' = "handle"
    /\ UNCHANGED <<dvars, text, paragraphs, collapsed, selected, nav_selected, active_pane,
                   nav_scroll_offset, area, scroll>>

\* KeyCode::Char('q') => return Ok(())
HandleQuit ==
    /\ pc = "handle" /\ ev = "q"
    /\ pc' = "done" /\ ev' = "none"
    /\ UNCHANGED <<dvars, text, paragraphs, collapsed, selected, nav_selected, active_pane,
                   nav_scroll_offset, area, scroll>>

\* KeyCode::Down | KeyCode::Char('j') => app.next()
HandleDown ==
    /\ pc = "handle" /\ ev \in DownKeys
    /\ IF active_pane = "Left"
       THEN /\ nav_selected' = next_left(paragraphs, nav_selected, nav_scroll_offset)[1]
            /\ nav_scroll_offset' = next_left(paragraphs, nav_selected, nav_scroll_offset)[2]
            /\ UNCHANGED selected
       ELSE /\ selected' = next_right(paragraphs, selected)
            /\ UNCHANGED <<nav_selected, nav_scroll_offset>>
    /\ pc' = "draw" /\ ev' = "none"
    /\ UNCHANGED <<dvars, text, paragraphs, collapsed, active_pane, area, scroll>>

\* KeyCode::Up | KeyCode::Char('k') => app.prev()
HandleUp ==
    /\ pc = "handle" /\ ev \in UpKeys
    /\ IF active_pane = "Left"
       THEN /\ nav_selected' = prev_left(nav_selected, nav_scroll_offset)[1]
            /\ nav_scroll_offset' = prev_left(nav_selected, nav_scroll_offset)[2]
            /\ UNCHANGED selected
       ELSE /\ selected' = prev_right(selected)
            /\ UNCHANGED <<nav_selected, nav_scroll_offset>>
    /\ pc' = "draw" /\ ev' = "none"
    /\ UNCHANGED <<dvars, text, paragraphs, collapsed, active_pane, area, scroll>>

\* Left arm without the `sync selection` assignment
left_nav_keep(pane, nav, sel) == nav

\* the Left arm's new nav_selected
left_nav(pane, nav, sel) == sel

\* KeyCode::Left | KeyCode::Char('h')
HandleLeft ==
    /\ pc = "handle" /\ ev \in LeftKeys
    /\ active_pane' = "Left"
    /\ nav_selected' = left_nav(active_pane, nav_selected, selected)
    /\ pc' = "draw" /\ ev' = "none"
    /\ UNCHANGED <<dvars, text, paragraphs, collapsed, selected, nav_scroll_offset, area, scroll>>

\* the Right arm's new active_pane
right_pane(pane) == "Right"

\* KeyCode::Right | KeyCode::Char('l')
HandleRight ==
    /\ pc = "handle" /\ ev \in RightKeys
    /\ active_pane' = right_pane(active_pane)
    /\ pc' = "draw" /\ ev' = "none"
    /\ UNCHANGED <<dvars, text, paragraphs, collapsed, selected, nav_selected,
                   nav_scroll_offset, area, scroll>>

\* KeyCode::Char(' ') => app.toggle()
HandleSpace ==
    /\ pc = "handle" /\ ev = " "
    /\ collapsed' = toggle(collapsed, active_pane, nav_selected, selected)
    /\ pc' = "draw" /\ ev' = "none"
    /\ UNCHANGED <<dvars, text, paragraphs, selected, nav_selected, active_pane,
                   nav_scroll_offset, area, scroll>>

\* the Enter arm: <<selected, active_pane>>
enter(pane, nav, sel) ==
    IF pane = "Left" THEN <<select_nav(nav, sel), "Right">> ELSE <<sel, pane>>

\* KeyCode::Enter
HandleEnter ==
    /\ pc = "handle" /\ ev = "Enter"
    /\ selected' = enter(active_pane, nav_selected, selected)[1]
    /\ active_pane' = enter(active_pane, nav_selected, selected)[2]
    /\ pc' = "draw" /\ ev' = "none"
    /\ UNCHANGED <<dvars, text, paragraphs, collapsed, nav_selected, nav_scroll_offset, area, scroll>>

\* Home arm without the active_pane test
home_anypane(pane, sel) == 0

\* the Home arm: selected
home(pane, sel) == IF pane = "Right" THEN 0 ELSE sel

\* KeyCode::Home
HandleHome ==
    /\ pc = "handle" /\ ev = "Home"
    /\ selected' = home(active_pane, selected)
    /\ pc' = "draw" /\ ev' = "none"
    /\ UNCHANGED <<dvars, text, paragraphs, collapsed, nav_selected, active_pane,
                   nav_scroll_offset, area, scroll>>

\* End arm without the is_empty test
end_noempty(paras, pane, sel) ==
    IF pane = "Right" THEN Len(paras) - 1 ELSE sel

\* End arm selecting one past the last paragraph
end_len(paras, pane, sel) ==
    IF pane = "Right"
    THEN (IF Len(paras) = 0 THEN 0 ELSE Len(paras))
    ELSE sel

\* the End arm: selected
end(paras, pane, sel) ==
    IF pane = "Right"
    THEN (IF Len(paras) = 0 THEN 0 ELSE Len(paras) - 1)
    ELSE sel

\* KeyCode::End
HandleEnd ==
    /\ pc = "handle" /\ ev = "End"
    /\ selected' = end(paragraphs, active_pane, selected)
    /\ pc' = "draw" /\ ev' = "none"
    /\ UNCHANGED <<dvars, text, paragraphs, collapsed, nav_selected, active_pane,
                   nav_scroll_offset, area, scroll>>

\* an unmatched key after which the loop polls again without a render
HandleOtherKey_reread ==
    /\ pc = "handle" /\ ev \in OtherKeys
    /\ pc' = "poll" /\ ev' = "none"
    /\ UNCHANGED <<dvars, text, paragraphs, collapsed, selected, nav_selected, active_pane,
                   nav_scroll_offset, area, scroll>>

\* `_ => {}`: a key without a match arm
HandleOtherKey ==
    /\ pc = "handle" /\ ev \in OtherKeys
    /\ pc' = "draw" /\ ev' = "none"
    /\ UNCHANGED <<dvars, text, paragraphs, collapsed, selected, nav_selected, active_pane,
                   nav_scroll_offset, area, scroll>>

\* `if let Event::Key(key)` does not match: the event is dropped
HandleNonKey ==
    /\ pc = "handle" /\ ev \in NonKeyEvents
    /\ pc' = "draw" /\ ev' = "none"
    /\ UNCHANGED <<dvars, text, paragraphs, collapsed, selected, nav_selected, active_pane,
                   nav_scroll_offset, area, scroll>>

Next ==
    \/ Draw
    \/ PollTimeout
    \/ ReadEvent
    \/ HandleQuit
    \/ HandleDown
    \/ HandleUp
    \/ HandleLeft
    \/ HandleRight
    \/ HandleSpace
    \/ HandleEnter
    \/ HandleHome
    \/ HandleEnd
    \/ HandleOtherKey
    \/ HandleNonKey

Spec == Init /\ [][Next]_vars

\* ------------------------------------------------------ construction alone
\* main holds a text and has not yet called App::new
SegInit ==
    /\ text \in SegTexts
    /\ paragraphs = <<>>
    /\ collapsed = <<>>
    /\ selected = 0
    /\ nav_selected = 0
    /\ active_pane = "Left"
    /\ nav_scroll_offset = 0
    /\ pc = "new"
    /\ ev = "none"
    /\ area = 0
    /\ scroll = 0
    /\ DebOff

\* App::new(text): the App as constructed; the borrow of text ends here
AppNew ==
    /\ pc = "new"
    /\ paragraphs' = segment(lines(text), <<>>, <<>>)
    /\ collapsed' = [i \in 1..Len(paragraphs') |-> FALSE]
    /\ selected' = 0
    /\ nav_selected' = 0
    /\ active_pane' = "Left"
    /\ nav_scroll_offset' = 0
    /\ text' = <<>>
    /\ pc' = "draw"
    /\ UNCHANGED <<dvars, ev, area, scroll>>

SegSpec == SegInit /\ [][AppNew]_vars

\* ------------------------------------------------------ debounced loop
\* values of app.state; the widget library decides what an event does to it
TreeStates == 0..(MaxTree - 1)

\* keys whose arm calls a method of app.state and returns its bool
StateKeys == {"\n", " ", "Left", "Right", "Down", "Up", "Esc", "Home", "End",
              "PageDown", "PageUp"}
\* mouse kinds whose arm calls a method of app.state
StateMouse == {"ScrollDown", "ScrollUp", "MouseDown"}
\* events whose arm is `false`
IgnoredEvents == {"x", "MouseMoved", "FocusGained"}
DEvents == {"q", "Resize"} \cup StateKeys \cup StateMouse \cup IgnoredEvents

\* `timeout`: DEBOUNCE, or what is left of it since debounce was set
timeout(deb) ==
    IF deb = None THEN DEBOUNCE ELSE saturating_sub(DEBOUNCE, deb[1])

\* start.elapsed() after d more milliseconds; only its comparison with
\* DEBOUNCE is ever used, so it is kept up to DEBOUNCE + 1
elapse(deb, d) ==
    IF deb = None THEN None ELSE Some(Min(deb[1] + d, DEBOUNCE + 1))

\* debounce.is_some_and(|debounce| debounce.elapsed() > DEBOUNCE)
expired(deb) == IF deb = None THEN FALSE ELSE deb[1] > DEBOUNCE

\* debounce is set and its window is still running
running(deb) == IF deb = None THEN FALSE ELSE deb[1] <= DEBOUNCE

\* debounce set anew at every update
get_or_insert_restart(deb, update) ==
    IF update THEN Some(0) ELSE deb

\* `if update { debounce.get_or_insert_with(Instant::now); }`
get_or_insert(deb, update) ==
    IF update /\ deb = None THEN Some(0) ELSE deb

\* run_app up to the loop: the first draw is done, debounce is None
DebInit ==
    /\ dpc = "poll" /\ dev = "none" /\ debounce = None
    /\ tree \in TreeStates /\ shown = tree
    /\ text = <<>> /\ paragraphs = <<>> /\ collapsed = <<>>
    /\ selected = 0 /\ nav_selected = 0 /\ active_pane = "Left"
    /\ nav_scroll_offset = 0 /\ pc = "off" /\ ev = "none"
    /\ area = 0 /\ scroll = 0

\* event::poll(timeout) returned true after d milliseconds; event::read
DRead ==
    /\ dpc = "poll"
    /\ \E d \in 0..timeout(debounce) : debounce' = elapse(debounce, d)
    /\ \E e \in DEvents : dev' = e
    /\ dpc' = "handle"
    /\ UNCHANGED <<fvars, tree, shown>>

\* event::poll(timeout) returned false once the timeout had passed
DPollTimeout ==
    /\ dpc = "poll"
    /\ debounce' = elapse(debounce, timeout(debounce))
    /\ dpc' = "check"
    /\ UNCHANGED <<fvars, dev, tree, shown>>

\* 'q' falling through to `_ => false` instead of returning
DHandleQuit_ignored ==
    /\ dpc = "handle" /\ dev = "q"
    /\ debounce' = get_or_insert(debounce, FALSE)
    /\ dpc' = "check" /\ dev' = "none"
    /\ UNCHANGED <<fvars, tree, shown>>

\* KeyCode::Char('q') => return Ok(())
DHandleQuit ==
    /\ dpc = "handle" /\ dev = "q"
    /\ dpc' = "done" /\ dev' = "none"
    /\ UNCHANGED <<fvars, debounce, tree, shown>>

\* an arm calling app.state: the method sets the state and returns
\* whether it changed it
DHandleState ==
    /\ dpc = "handle" /\ dev \in StateKeys \cup StateMouse
    /\ \E t \in TreeStates :
           /\ tree' = t
           /\ debounce' = get_or_insert(debounce, t # tree)
    /\ dpc' = "check" /\ dev' = "none"
    /\ UNCHANGED <<fvars, shown>>

\* Event::Resize(_, _) => true
DHandleResize ==
    /\ dpc = "handle" /\ dev = "Resize"
    /\ debounce' = get_or_insert(debounce, TRUE)
    /\ dpc' = "check" /\ dev' = "none"
    /\ UNCHANGED <<fvars, tree, shown>>

\* `_ => false`
DHandleIgnored ==
    /\ dpc = "handle" /\ dev \in IgnoredEvents
    /\ debounce' = get_or_insert(debounce, FALSE)
    /\ dpc' = "check" /\ dev' = "none"
    /\ UNCHANGED <<fvars, tree, shown>>

\* debounce.is_some_and(|d| d.elapsed() > DEBOUNCE): draw, debounce = None
DRedraw ==
    /\ dpc = "check"
    /\ expired(debounce)
    /\ shown' = tree
    /\ debounce' = None
    /\ dpc' = "poll"
    /\ UNCHANGED <<fvars, dev, tree>>

\* the test fails: next iteration without a draw
DSkip ==
    /\ dpc = "check"
    /\ ~expired(debounce)
    /\ dpc' = "poll"
    /\ UNCHANGED <<fvars, dev, debounce, tree, shown>>

\* a millisecond passes while the loop body runs
DTick ==
    /\ dpc \in {"handle", "check"}
    /\ running(debounce)
    /\ debounce' = elapse(debounce, 1)
    /\ UNCHANGED <<fvars, dpc, dev, tree, shown>>

\* the steps of the loop itself
DLoop ==
    \/ DRead
    \/ DPollTimeout
    \/ DHandleQuit
    \/ DHandleState
    \/ DHandleResize
    \/ DHandleIgnored
    \/ DRedraw
    \/ DSkip

DNext == DLoop \/ DTick

DebSpec == DebInit /\ [][DNext]_vars

\* the loop keeps running until it returns, and the clock keeps advancing
DebFairSpec == DebSpec /\ WF_vars(DLoop) /\ SF_vars(DTick)

\* either program, from its own start
AnyNext == Next \/ DNext
AnySpec == (Init \/ DebInit) /\ [][AnyNext]_vars

\* ------------------------------------------------------ shorthands
count == Len(paragraphs)

TypeOK ==
    /\ Len(collapsed) = Len(paragraphs)
    /\ selected \in Nat /\ nav_selected \in Nat /\ nav_scroll_offset \in Nat
    /\ active_pane \in {"Left", "Right"}
    /\ pc \in {"off", "new", "draw", "poll", "handle", "done"}
    /\ ev \in Events \cup {"none"}

\* the fields of App
app == <<paragraphs, collapsed, selected, nav_selected, active_pane, nav_scroll_offset>>

\* the index the active pane moves
active_index == IF active_pane = "Left" THEN nav_selected ELSE selected

MoveKeys == DownKeys \cup UpKeys \cup {"Home", "End"}

\* ------------------------------------------------------ claims

\* C1: in every reachable state with at least one paragraph, both
\* nav_selected and selected are valid paragraph indices.
C1_IndicesInRange ==
    count > 0 =>
        /\ 0 <= nav_selected /\ nav_selected < count
        /\ 0 <= selected /\ selected < count

\* both panes have been moved to the last of three paragraphs
C1_Witness ==
    count = 3 /\ nav_selected = 2 /\ selected = 2 /\ pc = "draw"

\* C2: Enter handled while the navigation pane is active copies
\* nav_selected into selected and activates the content pane; nav_selected
\* and the collapse flags keep their values.
C2_Commit ==
    [][(pc = "handle" /\ ev = "Enter" /\ active_pane = "Left") =>
           /\ selected' = nav_selected'
           /\ active_pane' = "Right"
           /\ nav_selected' = nav_selected
           /\ collapsed' = collapsed]_vars

\* Enter is about to be handled in the navigation pane with the two
\* selections apart and a paragraph collapsed
C2_Witness ==
    /\ pc = "handle" /\ ev = "Enter" /\ active_pane = "Left"
    /\ nav_selected # selected
    /\ \E i \in 1..count : collapsed[i]

\* C3: Left handled in the content pane activates the navigation pane and
\* sets nav_selected to selected; Right handled in the navigation pane
\* activates the content pane; neither changes anything else among the
\* selections and the collapse flags.
C3_SwitchPane ==
    [][/\ (pc = "handle" /\ ev \in LeftKeys /\ active_pane = "Right") =>
              /\ active_pane' = "Left"
              /\ nav_selected' = selected
              /\ selected' = selected
              /\ collapsed' = collapsed
       /\ (pc = "handle" /\ ev \in RightKeys /\ active_pane = "Left") =>
              /\ active_pane' = "Right"
              /\ nav_selected' = nav_selected
              /\ selected' = selected
              /\ collapsed' = collapsed]_vars

\* Left is about to be handled in the content pane with the two
\* selections apart and a paragraph collapsed
C3_Witness ==
    /\ pc = "handle" /\ ev \in LeftKeys /\ active_pane = "Right"
    /\ nav_selected # selected
    /\ \E i \in 1..count : collapsed[i]

\* C4: Left handled while the navigation pane is already active changes
\* neither selection, nor the pane, nor the collapse flags.
C4_LeftInNavIsNoOp ==
    [][(pc = "handle" /\ ev \in LeftKeys /\ active_pane = "Left") =>
           UNCHANGED <<nav_selected, selected, active_pane, collapsed>>]_vars

\* C5: with at least one paragraph, Down moves the active pane's index to
\* min(i + 1, count - 1) and Up to max(i - 1, 0); the other index, the
\* pane and the collapse flags keep their values.
C5_MoveClamped ==
    [][(pc = "handle" /\ count > 0 /\ ev \in DownKeys \cup UpKeys) =>
           LET target == IF ev \in DownKeys
                         THEN Min(active_index + 1, count - 1)
                         ELSE (IF active_index - 1 > 0 THEN active_index - 1 ELSE 0)
           IN /\ IF active_pane = "Left"
                 THEN nav_selected' = target /\ selected' = selected
                 ELSE selected' = target /\ nav_selected' = nav_selected
              /\ active_pane' = active_pane
              /\ collapsed' = collapsed]_vars

\* Down is about to be handled with the navigation selection on the last
\* of three paragraphs and the content selection elsewhere
C5_Witness ==
    /\ pc = "handle" /\ ev \in DownKeys /\ active_pane = "Left"
    /\ count = 3 /\ nav_selected = count - 1 /\ selected # nav_selected

C7_ContentIndexFrame ==
    [][selected' # selected =>
           /\ pc = "handle"
           /\ \/ ev = "Enter" /\ active_pane = "Left"
              \/ ev \in MoveKeys /\ active_pane = "Right"]_vars

\* Home is about to be handled in the navigation pane while the content
\* selection is not on the first paragraph
C7_Witness ==
    pc = "handle" /\ ev = "Home" /\ active_pane = "Left" /\ selected > 0

\* C8: in the content pane Home sets selected to 0 and End sets it to
\* count - 1 (0 for an empty document), keeping nav_selected, the pane and
\* the collapse flags; in the navigation pane neither changes any field
\* of App.
C8_Jump ==
    [][(pc = "handle" /\ ev \in {"Home", "End"}) =>
           IF active_pane = "Right"
           THEN /\ selected' = (IF ev = "Home" \/ count = 0 THEN 0 ELSE count - 1)
                /\ UNCHANGED <<nav_selected, active_pane, collapsed>>
           ELSE UNCHANGED app]_vars

\* End is about to be handled in the content pane of a three-paragraph
\* document whose content selection is not yet on the last paragraph
C8_Witness ==
    /\ pc = "handle" /\ ev = "End" /\ active_pane = "Right"
    /\ count = 3 /\ selected < count - 1

\* C9: Space flips the collapse flag at the active pane's index and no
\* other; both selections and the pane keep their values; with the index
\* out of range no flag changes.
C9_ToggleOne ==
    [][(pc = "handle" /\ ev = " ") =>
           /\ Len(collapsed') = Len(collapsed)
           /\ \A i \in 1..Len(collapsed) :
                  collapsed'[i] = (IF i = active_index + 1
                                   THEN ~collapsed[i]
                                   ELSE collapsed[i])
           /\ UNCHANGED <<nav_selected, selected, active_pane>>]_vars

\* Space is about to be handled in the content pane with the two
\* selections apart
C9_Witness ==
    /\ pc = "handle" /\ ev = " " /\ active_pane = "Right"
    /\ count >= 2 /\ selected # nav_selected

\* C10: for either pane and every paragraph index (the first out-of-range
\* index included), two toggles in a row give back the visible_lines()
\* of before.
C10_ToggleTwice ==
    \A p \in {"Left", "Right"} : \A i \in 0..count :
        LET once  == toggle(collapsed, p, i, i)
            twice == toggle(once, p, i, i)
        IN visible_lines(paragraphs, twice) = visible_lines(paragraphs, collapsed)

\* a toggle has collapsed a paragraph, and toggling the paragraph under
\* the active selection once changes the visible lines
C10_Witness ==
    /\ \E i \in 1..count : collapsed[i]
    /\ visible_lines(paragraphs,
                     toggle(collapsed, active_pane, nav_selected, selected))
           # visible_lines(paragraphs, collapsed)
    /\ ~collapsed[active_index + 1]

\* C11: the collapse flags are as many as the paragraphs in every reachable
\* state, all flags are equal at construction, and no step changes the
\* paragraphs.
C11_FlagsAligned ==
    /\ \A i, j \in 1..Len(collapsed) : collapsed[i] = collapsed[j]
    /\ [](Len(collapsed) = Len(paragraphs))
    /\ [][paragraphs' = paragraphs]_vars

\* three paragraphs, of which toggles have collapsed some but not all
C11_Witness ==
    /\ count = 3 /\ pc = "draw"
    /\ \E i, j \in 1..count : collapsed[i] /\ ~collapsed[j]

\* the lines of `vis` tagged with paragraph index i, in order
lines_tagged(vis, i) ==
    LET own == SelectSeq(vis, LAMBDA e : e[1] = i)
    IN [k \in 1..Len(own) |-> own[k][2]]

\* C12: visible_lines() is the reference projection: tags are paragraph
\* indices in non-decreasing order, and the lines tagged i are paragraph
\* i's first line when it is collapsed and all its lines otherwise.
C12_VisibleLinesReference ==
    LET vis == visible_lines(paragraphs, collapsed) IN
    /\ \A k \in 1..Len(vis) : vis[k][1] \in 0..(count - 1)
    /\ \A k \in 1..(Len(vis) - 1) : vis[k][1] <= vis[k + 1][1]
    /\ \A i \in 0..(count - 1) :
           /\ lines_tagged(vis, i) = (IF collapsed[i + 1]
                                      THEN <<paragraphs[i + 1][1]>>
                                      ELSE paragraphs[i + 1])
           /\ Len(lines_tagged(vis, i)) >= 1

\* three paragraphs of several lines each, some collapsed and some not
C12_Witness ==
    /\ count = 3
    /\ \A i \in 1..count : Len(paragraphs[i]) >= 2
    /\ collapsed[1] /\ ~collapsed[2] /\ collapsed[3]

\* ---- reference notions for the segmenter claims
\* positions of the non-blank lines of ls
non_blank(ls) == {k \in 1..Len(ls) : ~TrimIsEmpty(ls[k])}

\* positions at which a maximal run of non-blank lines starts
run_starts(ls) == {a \in non_blank(ls) : a = 1 \/ (a - 1) \notin non_blank(ls)}

\* last position of the maximal run that starts at a
run_end(ls, a) ==
    CHOOSE b \in a..Len(ls) :
        /\ \A k \in a..b : k \in non_blank(ls)
        /\ b = Len(ls) \/ (b + 1) \notin non_blank(ls)

\* start of the k-th maximal run, counted from 1 in document order
kth_start(ls, k) ==
    CHOOSE a \in run_starts(ls) :
        Cardinality({x \in run_starts(ls) : x <= a}) = k

\* the maximal runs of non-blank lines, in document order
maximal_runs(ls) ==
    [k \in 1..Cardinality(run_starts(ls)) |->
        SubSeq(ls, kth_start(ls, k), run_end(ls, kth_start(ls, k)))]

\* C13: App::new emits exactly the maximal runs of non-blank lines of the
\* text, in document order, each holding its run's lines; no paragraph is
\* empty, a text without a non-blank line gives no paragraph, and the
\* lines a,b,blank,c,blank,d,e give [[a,b],[c],[d,e]].
C13_Segmenter ==
    [][pc = "new" =>
           /\ paragraphs' = maximal_runs(lines(text))
           /\ \A k \in 1..Len(paragraphs') : Len(paragraphs'[k]) >= 1
           /\ non_blank(lines(text)) = {} => paragraphs' = <<>>
           /\ text = ExampleText =>
                  paragraphs' = << << <<"a">>, <<"b">> >>,
                                   << <<"c">> >>,
                                   << <<"d">>, <<"e">> >> >>]_vars

\* App::new is about to run on a text that starts with a blank line, has a
\* whitespace-only line, and has two runs of non-blank lines
C13_Witness ==
    /\ pc = "new"
    /\ Len(lines(text)) >= 4
    /\ TrimIsEmpty(lines(text)[1])
    /\ \E k \in 1..Len(lines(text)) :
           TrimIsEmpty(lines(text)[k]) /\ lines(text)[k] # <<>>
    /\ Cardinality(run_starts(lines(text))) = 2

\* the paragraphs written out as lines, one empty line between neighbours
RECURSIVE join_paragraphs(_)
join_paragraphs(paras) ==
    IF paras = <<>> THEN <<>>
    ELSE IF Len(paras) = 1 THEN paras[1]
    ELSE paras[1] \o << <<>> >> \o join_paragraphs(Tail(paras))

\* ls without its leading and trailing blank lines
trim_blank_lines(ls) ==
    IF non_blank(ls) = {} THEN <<>>
    ELSE LET first == CHOOSE a \in non_blank(ls) : \A x \in non_blank(ls) : a <= x
             last  == CHOOSE b \in non_blank(ls) : \A x \in non_blank(ls) : x <= b
         IN SubSeq(ls, first, last)

\* ls with every run of blank lines replaced by one empty line
RECURSIVE squeeze_blank_runs(_)
squeeze_blank_runs(ls) ==
    IF ls = <<>> THEN <<>>
    ELSE IF ~TrimIsEmpty(Head(ls))
         THEN <<Head(ls)>> \o squeeze_blank_runs(Tail(ls))
         ELSE IF Len(ls) >= 2 /\ TrimIsEmpty(ls[2])
              THEN squeeze_blank_runs(Tail(ls))
              ELSE << <<>> >> \o squeeze_blank_runs(Tail(ls))

\* C14 as stated: the paragraphs of App::new joined by single blank lines
\* are the lines of the text without its leading and trailing blank lines.
C14_RoundTrip ==
    [][pc = "new" =>
           join_paragraphs(paragraphs') = trim_blank_lines(lines(text))]_vars

\* C14 amended: the paragraphs of App::new joined by single empty lines
\* are the lines of the text without its leading and trailing blank
\* lines and with every run of blank lines between two paragraphs
\* replaced by one empty line.
C14_RoundTripSqueezed ==
    [][pc = "new" =>
           join_paragraphs(paragraphs') =
               squeeze_blank_runs(trim_blank_lines(lines(text)))]_vars

\* App::new is about to run on a text of two paragraphs separated by
\* something other than one empty line
C14_Witness ==
    /\ pc = "new"
    /\ Cardinality(run_starts(lines(text))) = 2
    /\ squeeze_blank_runs(trim_blank_lines(lines(text)))
           # trim_blank_lines(lines(text))

\* ---- shorthands for the scroll claims
\* line capacity of either pane at the last render (area less the borders)
capacity == saturating_sub(area, 2)

\* position of the selected paragraph's first line among the visible lines
current_line == selected_line(visible_lines(paragraphs, collapsed), selected)

nav_in_window ==
    nav_scroll_offset <= nav_selected /\ nav_selected < nav_scroll_offset + capacity

content_in_window ==
    scroll <= current_line /\ current_line < scroll + capacity

\* C15: right after a render of a non-empty document into panes of
\* capacity > 0, nav_selected lies in the navigation window and the
\* selected paragraph's first visible line lies in the content window.
C15_SelectionInWindow ==
    (pc = "poll" /\ count > 0 /\ capacity > 0) =>
        nav_in_window /\ content_in_window

\* a render at capacity 2 with both selections on the last of three
\* expanded paragraphs has scrolled both panes
C15_Witness ==
    /\ pc = "poll" /\ count = 3 /\ capacity = 2
    /\ nav_selected = 2 /\ selected = 2
    /\ nav_scroll_offset = 1 /\ scroll = 4

\* the three-case scroll policy for a selection at line `sel`
policy(sel, off, cap) ==
    IF off <= sel /\ sel < off + cap THEN off
    ELSE IF sel >= off + cap THEN sel - cap + 1
    ELSE sel

\* C16: every render into panes of capacity > 0 sets each pane's offset
\* by the three-case policy applied to the offset the pane had before the
\* render.
C16_ThreeCasePolicy ==
    [][(pc = "draw" /\ saturating_sub(area', 2) > 0) =>
           /\ nav_scroll_offset' =
                  policy(nav_selected, nav_scroll_offset, saturating_sub(area', 2))
           /\ scroll' = policy(current_line, scroll, saturating_sub(area', 2))]_vars

\* the content offset is the one a render computes for the present
\* selection, collapse flags and viewport
content_rendered ==
    scroll = content_scroll(visible_lines(paragraphs, collapsed), selected, capacity)

\* C17: a render at an unchanged viewport keeps the navigation offset when
\* nav_selected is inside the navigation window, and keeps the content
\* offset when the selected line is inside the content window and the
\* offset is that of a render of the present selection and flags.
C17_ScrollStable ==
    [][(pc = "draw" /\ area' = area) =>
           /\ nav_in_window => nav_scroll_offset' = nav_scroll_offset
           /\ (content_in_window /\ content_rendered) => scroll' = scroll]_vars

\* a render is due while both panes are scrolled and both selections lie
\* inside their windows, the navigation one not on the window's last row
C17_Witness ==
    /\ pc = "draw" /\ capacity = 2
    /\ nav_scroll_offset = 1 /\ nav_selected = 1 /\ nav_in_window
    /\ scroll > 0 /\ content_in_window /\ content_rendered

\* C18: right after a render with capacity 0 or with an empty line list,
\* both panes' offsets are 0.
C18_ZeroCapacityOffset ==
    (pc = "poll" /\ (capacity = 0 \/ count = 0)) =>
        nav_scroll_offset = 0 /\ scroll = 0

\* the paragraphs of main's text
MainParagraphs == segment(lines(MainText), <<>>, <<>>)

\* C19: main's three paragraphs, all expanded, rendered at capacity 2 with
\* the last paragraph selected: its first line is visible line 5 and the
\* content offset is 4.
C19_Scenario ==
    (/\ pc = "poll" /\ paragraphs = MainParagraphs
     /\ \A i \in 1..count : ~collapsed[i]
     /\ capacity = 2 /\ selected = 2) =>
        current_line = 5 /\ scroll = 4

\* the scenario's state right after the render
C19_Witness ==
    /\ pc = "poll" /\ paragraphs = MainParagraphs /\ count = 3
    /\ \A i \in 1..count : ~collapsed[i]
    /\ capacity = 2 /\ selected = 2 /\ active_pane = "Right"

\* C20: a key without a match arm and an event that is not a key change
\* neither the pane, nor a selection, nor a collapse flag.
C20_IgnoredEvents ==
    [][(pc = "handle" /\ ev \in OtherKeys \cup NonKeyEvents) =>
           UNCHANGED <<active_pane, nav_selected, selected, collapsed>>]_vars

\* Esc is about to be handled in the navigation pane with the two
\* selections apart and a paragraph collapsed
C20_Witness ==
    /\ pc = "handle" /\ ev = "Esc" /\ active_pane = "Left"
    /\ nav_selected # selected
    /\ \E i \in 1..count : collapsed[i]

\* C21: Quit ends the session from every reachable state of either loop,
\* whatever the pane, the indices, the collapse flags, and whether or not a
\* debounced redraw is pending: the step that handles 'q' returns from
\* run_app with every piece of application state as it was (no redraw is
\* squeezed in), and once run_app has returned no step happens at all, so
\* no further event is applied and no state changes.
C21_QuitTerminates ==
    [][/\ pc # "done" /\ dpc # "done"
       /\ (pc = "handle" /\ ev = "q"
              => pc' = "done" /\ UNCHANGED <<app, area, scroll>>)
       /\ (dpc = "handle" /\ dev = "q" /\ dpc' # dpc
              => dpc' = "done" /\ UNCHANGED <<tree, shown, debounce>>)]_vars

\* 'q' is about to be handled while a redraw is pending for a state that
\* has not been drawn yet
C21_Witness ==
    /\ dpc = "handle" /\ dev = "q"
    /\ debounce # None /\ tree # shown

\* 'q' is about to be handled by the navigator away from its initial state
C21_WitnessNavigator ==
    /\ pc = "handle" /\ ev = "q"
    /\ active_pane = "Right" /\ selected > 0 /\ \E i \in 1..count : collapsed[i]

\* C22: a render is a pure projection: a render changes no stored
\* application state: paragraphs, collapse flags, pane, both indices and
\* the stored navigation scroll offset are after it what they were before.
\* Stated for the renders of ordinary use: the navigation pane has at least
\* one row and the stored offset is not beyond the selection.
C22_RenderIsPure ==
    [][/\ pc = "draw"
       /\ saturating_sub(area', 2) > 0
       /\ nav_scroll_offset <= nav_selected
       => UNCHANGED app]_vars

\* C23: in the outline navigator's loop at most one event is applied
\* between two consecutive renders, each transition is applied completely
\* before the next render, and every applied event other than Quit is
\* followed by a render before the next event is read.  Step by step: an
\* event is read only by the poll that directly follows a render; the step
\* after the read applies that event's whole transition and leads to the
\* render (or, for 'q', out of the loop); the model's fields change in no
\* other step, and neither the poll nor the render touches them.
C23_OneEventPerRender ==
    [][/\ (pc' = "poll" => pc = "draw")
       /\ (pc' = "handle" => pc = "poll" /\ ev = "none" /\ ev' \in Events)
       /\ (pc = "handle" => /\ pc' = (IF ev = "q" THEN "done" ELSE "draw")
                            /\ ev' = "none")
       /\ (pc = "poll" => UNCHANGED <<app, area, scroll>>)
       /\ (pc = "draw" => /\ pc' = "poll" /\ ev = "none"
                          /\ UNCHANGED <<paragraphs, collapsed, selected,
                                         nav_selected, active_pane>>)
       /\ (<<paragraphs, collapsed, selected, nav_selected, active_pane>>' #
              <<paragraphs, collapsed, selected, nav_selected, active_pane>>
              => pc = "handle" /\ pc' = "draw")]_vars

\* an event that moves the selection is about to be applied after a render
C23_Witness ==
    /\ pc = "handle" /\ ev \in DownKeys
    /\ area > 2 /\ active_pane = "Left" /\ nav_selected + 1 < count

\* a redraw has been requested and not yet served
pending == debounce # None

\* C24: in the debounced loop every event that requests a redraw is
\* eventually followed by a redraw unless Quit is processed first; the
\* debounce window starts at the first pending request and later events do
\* not restart it; the one redraw that ends the window serves every request
\* made before it (it draws the state as it is then and leaves nothing
\* pending, and whenever nothing is pending the drawn state is the current
\* one); and an event's state change is made in the step that processes the
\* event, never at the redraw.
C24_Debounce ==
    /\ pending ~> (~pending \/ dpc = "done")
    /\ [][/\ (dpc = "handle" /\ dpc' = "check"
                => debounce' = (IF pending THEN debounce
                                ELSE IF dev = "Resize" \/ tree' # tree
                                     THEN Some(0) ELSE None))
          /\ (pending /\ ~pending' => /\ dpc = "check" /\ expired(debounce)
                                      /\ shown' = tree /\ tree' = tree)
          /\ (shown' # shown => pending /\ ~pending')
          /\ (tree' # tree => dpc = "handle" /\ dpc' = "check")]_vars
    /\ [](~pending => shown = tree)

\* a second state change is about to be processed while the redraw for an
\* earlier one is still pending
C24_Witness ==
    /\ dpc = "handle" /\ dev \in StateKeys
    /\ pending /\ running(debounce) /\ debounce[1] > 0 /\ tree # shown

\* ------------------------------------------------------ usize subtractions
\* the pairs <<a, b>> for which `a - b` is evaluated on usize operands

\* App::next: `self.nav_selected - height + 1`, after nav_selected += 1
next_subs(len, pane, nav, off) ==
    IF pane = "Left" /\ nav + 1 < len /\ nav + 1 >= off + PlaceholderHeight
    THEN {<<nav + 1, PlaceholderHeight>>}
    ELSE {}

\* prev without its `> 0` tests
prev_subs_unguarded(pane, nav, sel) ==
    IF pane = "Left" THEN {<<nav, 1>>} ELSE {<<sel, 1>>}

\* App::prev: `self.nav_selected -= 1`, `self.selected -= 1`
prev_subs(pane, nav, sel) ==
    IF pane = "Left"
    THEN (IF nav > 0 THEN {<<nav, 1>>} ELSE {})
    ELSE (IF sel > 0 THEN {<<sel, 1>>} ELSE {})

\* the End arm: `app.paragraphs.len() - 1`
end_subs(len, pane) ==
    IF pane = "Right" /\ len # 0 THEN {<<len, 1>>} ELSE {}

\* the draw closure: `app.nav_selected - nav_height + 1`
nav_scroll_subs(nav, off, nav_height) ==
    IF nav >= off + nav_height THEN {<<nav, nav_height>>} ELSE {}

\* the draw closure: `selected_line - height / 2`
content_scroll_subs(vis, sel, height) ==
    LET line == selected_line(vis, sel) IN
    IF line >= height THEN {<<line, height \div 2>>} ELSE {}

\* the subtractions evaluated by the steps the loop can take from here
subtractions ==
    (IF pc = "handle" /\ ev \in DownKeys
     THEN next_subs(count, active_pane, nav_selected, nav_scroll_offset)
     ELSE {})
    \cup (IF pc = "handle" /\ ev \in UpKeys
          THEN prev_subs(active_pane, nav_selected, selected)
          ELSE {})
    \cup (IF pc = "handle" /\ ev = "End"
          THEN end_subs(count, active_pane)
          ELSE {})
    \cup (IF pc = "draw"
          THEN UNION {nav_scroll_subs(nav_selected, nav_scroll_offset,
                                      saturating_sub(h, 2))
                      \cup content_scroll_subs(
                              visible_lines(paragraphs, collapsed), selected,
                              saturating_sub(h, 2)) : h \in 0..MaxArea}
          ELSE {})

\* next's subtraction for every paragraph count, index and offset up to
\* PlaceholderHeight + MaxArea, lists longer than the placeholder included
next_subs_all ==
    LET N == 0..(PlaceholderHeight + MaxArea) IN
    UNION {next_subs(len, "Left", nav, off) : <<len, nav, off>> \in N \X N \X N}

\* C25: no unsigned subtraction of the selection and scroll arithmetic
\* underflows: in every reachable state and at every viewport height, 0
\* included, each of nav_selected - height (next and render),
\* nav_selected - 1 and selected - 1 (prev), paragraphs.len() - 1 (End) and
\* selected_line - height / 2 (content scroll) is evaluated only with a
\* first operand at least as large as the second.
C25_NoUnderflow ==
    /\ \A s \in subtractions : s[1] >= s[2]
    /\ \A s \in next_subs_all : s[1] >= s[2]

\* a render is due whose navigation subtraction comes out as exactly 0,
\* with the content pane's selected line below the first row
C25_Witness ==
    /\ pc = "draw" /\ nav_selected > 0 /\ selected > 0
    /\ <<nav_selected, nav_selected>> \in subtractions
    /\ \E s \in subtractions : s[1] > s[2] /\ s[2] > 0
    /\ next_subs_all # {}

====
